---- MODULE Spec2Model ----
(***************************************************************************)
(* Payment-instruction service: the hand-written instruction parser        *)
(* (parseInstruction), the field validators and the validation /           *)
(* transaction chain (parsePaymentInstruction), and the HTTP handler that  *)
(* wraps them.                                                             *)
(*                                                                         *)
(* A JavaScript string is a sequence of one-character strings, indexed     *)
(* from 0 in the operators that carry JavaScript names (indexOf,           *)
(* substring), so that the numeric offsets of the source (5, 6, 7, 2)      *)
(* appear unchanged.  A nullable string is the record Null or Str(s).      *)
(***************************************************************************)
EXTENDS Integers, Sequences, FiniteSets, TLC

\* ------------------------------------------------------------------------
\* Characters and JavaScript string primitives
\* ------------------------------------------------------------------------

LowerLetters == <<"a","b","c","d","e","f","g","h","i","j","k","l","m",
                  "n","o","p","q","r","s","t","u","v","w","x","y","z">>

UpperLetters == <<"A","B","C","D","E","F","G","H","I","J","K","L","M",
                  "N","O","P","Q","R","S","T","U","V","W","X","Y","Z">>

DigitChars == <<"0","1","2","3","4","5","6","7","8","9">>

\* The white space String.prototype.trim removes (the part of it the inputs use).
WhiteSpace == {" ", "\t", "\n", "\r"}

Range(s) == {s[i] : i \in DOMAIN s}

LowerSet == Range(LowerLetters)

UpperSet == Range(UpperLetters)

DigitSet == Range(DigitChars)

\* char >= 'a' && char <= 'z'  ||  char >= 'A' && char <= 'Z'
IsLetterChar(c) == c \in LowerSet \/ c \in UpperSet

\* char >= '0' && char <= '9'
IsDigitChar(c) == c \in DigitSet

DigitValues == [c \in DigitSet |-> (CHOOSE i \in DOMAIN DigitChars : DigitChars[i] = c) - 1]

DigitValue(c) == DigitValues[c]

LowerOf == [c \in UpperSet |-> LowerLetters[CHOOSE i \in DOMAIN UpperLetters : UpperLetters[i] = c]]

UpperOf == [c \in LowerSet |-> UpperLetters[CHOOSE i \in DOMAIN LowerLetters : LowerLetters[i] = c]]

toLowerChar(c) == IF c \in UpperSet THEN LowerOf[c] ELSE c

toUpperChar(c) == IF c \in LowerSet THEN UpperOf[c] ELSE c

toLowerCase(s) == [i \in DOMAIN s |-> toLowerChar(s[i])]

toUpperCase(s) == [i \in DOMAIN s |-> toUpperChar(s[i])]

Min(a, b) == IF a < b THEN a ELSE b

Max(a, b) == IF a < b THEN b ELSE a

Clamp(i, n) == Max(0, Min(i, n))

\* String.prototype.substring(start, end): both clamped to [0, length], swapped
\* when start > end; 0-based, end exclusive.
substring(s, start, end) ==
    LET a == Clamp(start, Len(s))
        b == Clamp(end, Len(s))
    IN  SubSeq(s, Min(a, b) + 1, Max(a, b))

\* String.prototype.indexOf(k, from): the least 0-based position >= from at
\* which k occurs, or -1.
indexOf(s, k, from) ==
    LET start == Clamp(from, Len(s))
        hits  == {i \in start..(Len(s) - Len(k)) :
                     \A j \in 1..Len(k) : s[i + j] = k[j]}
    IN  IF hits = {} THEN -1
        ELSE CHOOSE i \in hits : \A h \in hits : i <= h

\* String.prototype.trim
trim(s) ==
    LET keep == {i \in DOMAIN s : s[i] \notin WhiteSpace}
    IN  IF keep = {} THEN <<>>
        ELSE SubSeq(s, CHOOSE i \in keep : \A k \in keep : i <= k,
                       CHOOSE i \in keep : \A k \in keep : i >= k)

\* String.prototype.split(sep) for a one-character separator.
RECURSIVE split(_, _)
split(s, sep) ==
    LET at == indexOf(s, <<sep>>, 0)
    IN  IF at = -1 THEN <<s>>
        ELSE <<substring(s, 0, at)>> \o split(substring(s, at + 1, Len(s)), sep)

\* A JavaScript number as parseInt returns it: an integer or NaN.
NaN == [nan |-> TRUE, val |-> 0]

Num(n) == [nan |-> FALSE, val |-> n]

RECURSIVE DigitsValue(_)
DigitsValue(ds) ==
    IF ds = <<>> THEN 0
    ELSE 10 * DigitsValue(SubSeq(ds, 1, Len(ds) - 1)) + DigitValue(ds[Len(ds)])

\* parseInt(str, 10): leading white space skipped, an optional sign, then the
\* longest run of digits; NaN when that run is empty.
parseInt(str) ==
    LET nonWs  == {i \in DOMAIN str : str[i] \notin WhiteSpace}
        first  == IF nonWs = {} THEN Len(str) + 1
                  ELSE CHOOSE i \in nonWs : \A k \in nonWs : i <= k
        signed == first <= Len(str) /\ str[first] \in {"-", "+"}
        from   == IF signed THEN first + 1 ELSE first
        stops  == {i \in from..Len(str) : ~IsDigitChar(str[i])}
        upto   == IF stops = {} THEN Len(str)
                  ELSE (CHOOSE i \in stops : \A k \in stops : i <= k) - 1
        mag    == DigitsValue(SubSeq(str, from, upto))
    IN  IF upto < from THEN NaN
        ELSE IF signed /\ str[first] = "-" THEN Num(0 - mag) ELSE Num(mag)

\* A nullable string: null, or a string.
Null == [isNull |-> TRUE, str |-> <<>>]

Str(s) == [isNull |-> FALSE, str |-> s]

\* ------------------------------------------------------------------------
\* Field validators
\* ------------------------------------------------------------------------

SUPPORTED_CURRENCIES == {<<"N","G","N">>, <<"U","S","D">>, <<"G","B","P">>, <<"G","H","S">>}

isValidAccountId(accountId) ==
    /\ \A i \in DOMAIN accountId :
          \/ IsLetterChar(accountId[i])
          \/ IsDigitChar(accountId[i])
          \/ accountId[i] \in {"-", ".", "@"}
    /\ Len(accountId) > 0

isPositiveInteger(amountStr) ==
    /\ Len(amountStr) # 0
    /\ indexOf(amountStr, <<".">>, 0) = -1
    /\ indexOf(amountStr, <<"-">>, 0) = -1
    /\ \A i \in DOMAIN amountStr : IsDigitChar(amountStr[i])
    /\ parseInt(amountStr).val > 0

\* ------------------------------------------------------------------------
\* Calendar arithmetic behind Date.UTC and the getUTC* readers.  A Date at
\* 00:00:00 UTC is its day number: days since 1970-01-01.
\* ------------------------------------------------------------------------

IsLeapYear(y) == (y % 4 = 0 /\ y % 100 # 0) \/ y % 400 = 0

DaysInMonth(y, m) ==
    IF m = 2 THEN (IF IsLeapYear(y) THEN 29 ELSE 28)
    ELSE IF m \in {4, 6, 9, 11} THEN 30 ELSE 31

\* Leap years among the years 1 .. y-1.
LeapYearsBefore(y) == ((y - 1) \div 4) - ((y - 1) \div 100) + ((y - 1) \div 400)

DaysBeforeYear(y) == 365 * (y - 1970) + LeapYearsBefore(y) - LeapYearsBefore(1970)

RECURSIVE DaysBeforeMonth(_, _)
DaysBeforeMonth(y, m) ==
    IF m <= 1 THEN 0 ELSE DaysBeforeMonth(y, m - 1) + DaysInMonth(y, m - 1)

\* Date.UTC(year, monthIndex, day) for monthIndex in 0..11; a day past the end
\* of the month runs on into the following month.
DateUTC(year, monthIndex, day) ==
    DaysBeforeYear(year) + DaysBeforeMonth(year, monthIndex + 1) + day - 1

getUTCFullYear(date) ==
    LET a == 1970 + (date \div 366) - 1
        b == 1970 + (date \div 365) + 1
    IN  CHOOSE y \in Min(a, b)..Max(a, b) :
            DaysBeforeYear(y) <= date /\ date < DaysBeforeYear(y + 1)

\* 0-based month, as Date.prototype.getUTCMonth returns it.
getUTCMonth(date) ==
    LET y    == getUTCFullYear(date)
        rest == date - DaysBeforeYear(y)
    IN  (CHOOSE m \in 1..12 :
            DaysBeforeMonth(y, m) <= rest /\ rest < DaysBeforeMonth(y, m) + DaysInMonth(y, m)) - 1

getUTCDate(date) ==
    LET y == getUTCFullYear(date)
    IN  date - DaysBeforeYear(y) - DaysBeforeMonth(y, getUTCMonth(date) + 1) + 1

\* isValidDate without the read-back of the constructed date.
isValidDate_NoReadBack(dateStr) ==
    /\ Len(dateStr) = 10
    /\ dateStr[5] = "-"
    /\ dateStr[8] = "-"
    /\ LET year     == substring(dateStr, 0, 4)
           month    == substring(dateStr, 5, 7)
           day      == substring(dateStr, 8, 10)
           yearNum  == parseInt(year).val
           monthNum == parseInt(month).val
           dayNum   == parseInt(day).val
       IN  /\ \A i \in DOMAIN year : IsDigitChar(year[i])
           /\ \A i \in DOMAIN month : IsDigitChar(month[i])
           /\ \A i \in DOMAIN day : IsDigitChar(day[i])
           /\ ~(monthNum < 1 \/ monthNum > 12)
           /\ ~(dayNum < 1 \/ dayNum > 31)
           /\ ~(yearNum < 1000)

isValidDate(dateStr) ==
    /\ Len(dateStr) = 10
    /\ dateStr[5] = "-"
    /\ dateStr[8] = "-"
    /\ LET year     == substring(dateStr, 0, 4)
           month    == substring(dateStr, 5, 7)
           day      == substring(dateStr, 8, 10)
           yearNum  == parseInt(year).val
           monthNum == parseInt(month).val
           dayNum   == parseInt(day).val
           date     == DateUTC(yearNum, monthNum - 1, dayNum)
       IN  /\ \A i \in DOMAIN year : IsDigitChar(year[i])
           /\ \A i \in DOMAIN month : IsDigitChar(month[i])
           /\ \A i \in DOMAIN day : IsDigitChar(day[i])
           /\ ~(monthNum < 1 \/ monthNum > 12)
           /\ ~(dayNum < 1 \/ dayNum > 31)
           /\ ~(yearNum < 1000)
           /\ getUTCFullYear(date) = yearNum
           /\ getUTCMonth(date) = monthNum - 1
           /\ getUTCDate(date) = dayNum

\* compareDateWithToday with today's date classified as still to come.
compareDateWithToday_TodayIsFuture(dateStr, now) ==
    LET todayUTC        == DateUTC(now.year, now.month - 1, now.day)
        parts           == split(dateStr, "-")
        instructionDate == DateUTC(parseInt(parts[1]).val,
                                   parseInt(parts[2]).val - 1,
                                   parseInt(parts[3]).val)
    IN  IF instructionDate < todayUTC THEN "past" ELSE "future"

\* compareDateWithToday with today read off the local clock of a server one
\* hour ahead of UTC (getFullYear, getMonth, getDate).
compareDateWithToday_LocalClock(dateStr, now) ==
    LET todayUTC        == DateUTC(now.year, now.month - 1, now.day)
                               + (IF now.hour + 1 >= 24 THEN 1 ELSE 0)
        parts           == split(dateStr, "-")
        instructionDate == DateUTC(parseInt(parts[1]).val,
                                   parseInt(parts[2]).val - 1,
                                   parseInt(parts[3]).val)
    IN  IF instructionDate < todayUTC THEN "past"
        ELSE IF instructionDate = todayUTC THEN "today"
        ELSE "future"

\* `now` is the instant new Date() reads: [year, month (1..12), day, hour], UTC.
compareDateWithToday(dateStr, now) ==
    LET todayUTC        == DateUTC(now.year, now.month - 1, now.day)
        parts           == split(dateStr, "-")
        instructionDate == DateUTC(parseInt(parts[1]).val,
                                   parseInt(parts[2]).val - 1,
                                   parseInt(parts[3]).val)
    IN  IF instructionDate < todayUTC THEN "past"
        ELSE IF instructionDate = todayUTC THEN "today"
        ELSE "future"

\* ------------------------------------------------------------------------
\* The instruction parser
\* ------------------------------------------------------------------------

KW_DEBIT   == <<"D","E","B","I","T">>
KW_CREDIT  == <<"C","R","E","D","I","T">>
KW_FROM    == <<"F","R","O","M">>
KW_TO      == <<"T","O">>
KW_ACCOUNT == <<"A","C","C","O","U","N","T">>
KW_FOR     == <<"F","O","R">>
KW_ON      == <<"O","N">>

findKeywordIndex(instruction, keyword, startFrom) ==
    indexOf(toLowerCase(instruction), toLowerCase(keyword), startFrom)

extractBetween(instruction, startPos, endPos) ==
    IF endPos = -1
    THEN trim(substring(instruction, startPos, Len(instruction)))
    ELSE trim(substring(instruction, startPos, endPos))

\* amountCurrencyPart.split(' ').filter((t) => t.length > 0)
amountCurrencyTokens(amountCurrencyPart) ==
    LET NonEmpty(t) == Len(t) > 0
    IN  SelectSeq(split(amountCurrencyPart, " "), NonEmpty)

\* What parseInstruction returns: null, or the six fields.
ParsedNull ==
    [isNull |-> TRUE, type |-> <<>>, amount |-> <<>>, currency |-> <<>>,
     debitAccount |-> <<>>, creditAccount |-> <<>>, executeBy |-> Null]

Parsed(type, amount, currency, debitAccount, creditAccount, executeBy) ==
    [isNull |-> FALSE, type |-> type, amount |-> amount, currency |-> currency,
     debitAccount |-> debitAccount, creditAccount |-> creditAccount,
     executeBy |-> IF executeBy = <<>> THEN Null ELSE Str(executeBy)]

\* The DEBIT branch:
\* DEBIT [amount] [currency] FROM ACCOUNT [id] FOR CREDIT TO ACCOUNT [id] [ON [date]]
parseDebitForm(t) ==
    LET fromIndex == findKeywordIndex(t, KW_FROM, 5)
    IN  IF fromIndex = -1 THEN ParsedNull ELSE
    LET tokens == amountCurrencyTokens(extractBetween(t, 5, fromIndex))
    IN  IF Len(tokens) < 2 THEN ParsedNull ELSE
    LET accountKeywordAfterFrom == findKeywordIndex(t, KW_ACCOUNT, fromIndex)
    IN  IF accountKeywordAfterFrom = -1 THEN ParsedNull ELSE
    LET forIndex == findKeywordIndex(t, KW_FOR, accountKeywordAfterFrom + 7)
    IN  IF forIndex = -1 THEN ParsedNull ELSE
    LET debitAccount == trim(extractBetween(t, accountKeywordAfterFrom + 7, forIndex))
        creditIndex  == findKeywordIndex(t, KW_CREDIT, forIndex)
    IN  IF creditIndex = -1 THEN ParsedNull ELSE
    LET toIndex == findKeywordIndex(t, KW_TO, creditIndex + 6)
    IN  IF toIndex = -1 THEN ParsedNull ELSE
    LET accountKeywordAfterTo == findKeywordIndex(t, KW_ACCOUNT, toIndex)
    IN  IF accountKeywordAfterTo = -1 THEN ParsedNull ELSE
    LET onIndex == findKeywordIndex(t, KW_ON, accountKeywordAfterTo + 7)
    IN  IF onIndex # -1
        THEN Parsed(KW_DEBIT, tokens[1], toUpperCase(tokens[2]), debitAccount,
                    trim(extractBetween(t, accountKeywordAfterTo + 7, onIndex)),
                    trim(extractBetween(t, onIndex + 2, -1)))
        ELSE Parsed(KW_DEBIT, tokens[1], toUpperCase(tokens[2]), debitAccount,
                    trim(extractBetween(t, accountKeywordAfterTo + 7, -1)),
                    <<>>)

\* The CREDIT branch:
\* CREDIT [amount] [currency] TO ACCOUNT [id] FOR DEBIT FROM ACCOUNT [id] [ON [date]]
parseCreditForm(t) ==
    LET toIndex == findKeywordIndex(t, KW_TO, 6)
    IN  IF toIndex = -1 THEN ParsedNull ELSE
    LET tokens == amountCurrencyTokens(extractBetween(t, 6, toIndex))
    IN  IF Len(tokens) < 2 THEN ParsedNull ELSE
    LET accountKeywordAfterTo == findKeywordIndex(t, KW_ACCOUNT, toIndex)
    IN  IF accountKeywordAfterTo = -1 THEN ParsedNull ELSE
    LET forIndex == findKeywordIndex(t, KW_FOR, accountKeywordAfterTo + 7)
    IN  IF forIndex = -1 THEN ParsedNull ELSE
    LET creditAccount == trim(extractBetween(t, accountKeywordAfterTo + 7, forIndex))
        debitIndex    == findKeywordIndex(t, KW_DEBIT, forIndex)
    IN  IF debitIndex = -1 THEN ParsedNull ELSE
    LET fromIndex == findKeywordIndex(t, KW_FROM, debitIndex + 5)
    IN  IF fromIndex = -1 THEN ParsedNull ELSE
    LET accountKeywordAfterFrom == findKeywordIndex(t, KW_ACCOUNT, fromIndex)
    IN  IF accountKeywordAfterFrom = -1 THEN ParsedNull ELSE
    LET onIndex == findKeywordIndex(t, KW_ON, accountKeywordAfterFrom + 7)
    IN  IF onIndex # -1
        THEN Parsed(KW_CREDIT, tokens[1], toUpperCase(tokens[2]),
                    trim(extractBetween(t, accountKeywordAfterFrom + 7, onIndex)),
                    creditAccount,
                    trim(extractBetween(t, onIndex + 2, -1)))
        ELSE Parsed(KW_CREDIT, tokens[1], toUpperCase(tokens[2]),
                    trim(extractBetween(t, accountKeywordAfterFrom + 7, -1)),
                    creditAccount,
                    <<>>)

parseInstruction(instruction) ==
    LET trimmedInstruction == trim(instruction)
        startsWithDebit    == findKeywordIndex(trimmedInstruction, KW_DEBIT, 0) = 0
        startsWithCredit   == findKeywordIndex(trimmedInstruction, KW_CREDIT, 0) = 0
    IN  IF ~startsWithDebit /\ ~startsWithCredit THEN ParsedNull
        ELSE IF startsWithDebit THEN parseDebitForm(trimmedInstruction)
        ELSE parseCreditForm(trimmedInstruction)

\* ------------------------------------------------------------------------
\* The validation / transaction chain of parsePaymentInstruction.
\* status_reason is left out: its texts come from a messages module and no
\* decision depends on them.
\* ------------------------------------------------------------------------

\* The `amount` field of a response: null, or a JavaScript number.
AmountNull == [isNull |-> TRUE, nan |-> FALSE, val |-> 0]

AmountOf(num) == [isNull |-> FALSE, nan |-> num.nan, val |-> num.val]

\* accounts.map((acc) => ({id, balance, balance_before: acc.balance, currency: upper}))
accountsWithOriginalBalances(accounts) ==
    [i \in DOMAIN accounts |->
        [id             |-> accounts[i].id,
         balance        |-> accounts[i].balance,
         balance_before |-> accounts[i].balance,
         currency       |-> toUpperCase(accounts[i].currency)]]

\* transactionAccountsOriginal echoing every account instead of the two parties.
transactionAccountsOriginal_All(accounts, debitAccount, creditAccount) ==
    accountsWithOriginalBalances(accounts)

\* The forEach of the CU01 / AC01 branches: the two parties, original order,
\* original balances.
RECURSIVE transactionAccountsOriginal(_, _, _)
transactionAccountsOriginal(accounts, debitAccount, creditAccount) ==
    IF accounts = <<>> THEN <<>>
    ELSE LET acc == Head(accounts)
             rest == transactionAccountsOriginal(Tail(accounts), debitAccount, creditAccount)
         IN  IF acc.id = debitAccount \/ acc.id = creditAccount
             THEN <<[id             |-> acc.id,
                     balance        |-> acc.balance,
                     balance_before |-> acc.balance,
                     currency       |-> toUpperCase(acc.currency)]>> \o rest
             ELSE rest

\* The forEach of the final response: every entry named debitAccount carries the
\* debit figures, every entry named creditAccount the credit figures.
RECURSIVE transactionAccountsFinal(_, _, _, _, _, _, _)
transactionAccountsFinal(accounts, debitAccount, creditAccount, newDebitBalance, newCreditBalance, debitAccountObj, creditAccountObj) ==
    IF accounts = <<>> THEN <<>>
    ELSE LET acc == Head(accounts)
             rest == transactionAccountsFinal(Tail(accounts), debitAccount, creditAccount,
                                              newDebitBalance, newCreditBalance,
                                              debitAccountObj, creditAccountObj)
         IN  IF acc.id = debitAccount
             THEN <<[id             |-> acc.id,
                     balance        |-> newDebitBalance,
                     balance_before |-> debitAccountObj.balance,
                     currency       |-> toUpperCase(acc.currency)]>> \o rest
             ELSE IF acc.id = creditAccount
             THEN <<[id             |-> acc.id,
                     balance        |-> newCreditBalance,
                     balance_before |-> creditAccountObj.balance,
                     currency       |-> toUpperCase(acc.currency)]>> \o rest
             ELSE rest

\* accounts.find((acc) => acc.id === id): the position of the first entry
\* with that id, 0 for undefined.
find(accounts, id) ==
    LET hits == {i \in DOMAIN accounts : accounts[i].id = id}
    IN  IF hits = {} THEN 0 ELSE CHOOSE i \in hits : \A h \in hits : i <= h

\* The function has not returned yet.
NoResponse ==
    [type |-> Null, amount |-> AmountNull, currency |-> Null,
     debit_account |-> Null, credit_account |-> Null, execute_by |-> Null,
     status |-> "none", status_code |-> "none", accounts |-> <<>>]

\* UnparseableResponse reporting the missing-keyword code.
UnparseableResponse_SY01 ==
    [type |-> Null, amount |-> AmountNull, currency |-> Null,
     debit_account |-> Null, credit_account |-> Null, execute_by |-> Null,
     status |-> "failed", status_code |-> "SY01", accounts |-> <<>>]

UnparseableResponse ==
    [type |-> Null, amount |-> AmountNull, currency |-> Null,
     debit_account |-> Null, credit_account |-> Null, execute_by |-> Null,
     status |-> "failed", status_code |-> "SY03", accounts |-> <<>>]

Response(parsed, amount, status, statusCode, accts) ==
    [type |-> Str(parsed.type), amount |-> amount, currency |-> Str(parsed.currency),
     debit_account |-> Str(parsed.debitAccount),
     credit_account |-> Str(parsed.creditAccount),
     execute_by |-> parsed.executeBy,
     status |-> status, status_code |-> statusCode, accounts |-> accts]

\* InvalidAmountField answering null for every rejected amount.
InvalidAmountField_Null(amount) == AmountNull

\* amount ? parseInt(amount, 10) : null
InvalidAmountField(amount) ==
    IF Len(amount) = 0 THEN AmountNull ELSE AmountOf(parseInt(amount))

\* FormatChecks with the currency check placed before the date check.
FormatChecks_CurrencyBeforeDate(parsed, accounts) ==
    LET amountInt == AmountOf(parseInt(parsed.amount))
        all       == accountsWithOriginalBalances(accounts)
    IN  IF ~isPositiveInteger(parsed.amount)
        THEN Response(parsed, InvalidAmountField(parsed.amount), "failed", "AM01", all)
        ELSE IF ~isValidAccountId(parsed.debitAccount)
        THEN Response(parsed, amountInt, "failed", "AC04", all)
        ELSE IF ~isValidAccountId(parsed.creditAccount)
        THEN Response(parsed, amountInt, "failed", "AC04", all)
        ELSE IF parsed.currency \notin SUPPORTED_CURRENCIES
        THEN Response(parsed, amountInt, "failed", "CU02", all)
        ELSE IF ~parsed.executeBy.isNull /\ ~isValidDate(parsed.executeBy.str)
        THEN Response(parsed, amountInt, "failed", "DT01", all)
        ELSE IF parsed.debitAccount = parsed.creditAccount
        THEN Response(parsed, amountInt, "failed", "AC02", all)
        ELSE NoResponse

\* The checks that need no account lookup: amount, the two id formats, the
\* date format, the currency, debit # credit.
FormatChecks(parsed, accounts) ==
    LET amountInt == AmountOf(parseInt(parsed.amount))
        all       == accountsWithOriginalBalances(accounts)
    IN  IF ~isPositiveInteger(parsed.amount)
        THEN Response(parsed, InvalidAmountField(parsed.amount), "failed", "AM01", all)
        ELSE IF ~isValidAccountId(parsed.debitAccount)
        THEN Response(parsed, amountInt, "failed", "AC04", all)
        ELSE IF ~isValidAccountId(parsed.creditAccount)
        THEN Response(parsed, amountInt, "failed", "AC04", all)
        ELSE IF ~parsed.executeBy.isNull /\ ~isValidDate(parsed.executeBy.str)
        THEN Response(parsed, amountInt, "failed", "DT01", all)
        ELSE IF parsed.currency \notin SUPPORTED_CURRENCIES
        THEN Response(parsed, amountInt, "failed", "CU02", all)
        ELSE IF parsed.debitAccount = parsed.creditAccount
        THEN Response(parsed, amountInt, "failed", "AC02", all)
        ELSE NoResponse

\* debitAccountObj.currency.toUpperCase() !== creditAccountObj.currency.toUpperCase()
accountCurrenciesDiffer(debitAccountObj, creditAccountObj) ==
    toUpperCase(debitAccountObj.currency) # toUpperCase(creditAccountObj.currency)

\* currency !== debitAccountObj.currency.toUpperCase()
instructionCurrencyDiffers(currency, debitAccountObj) ==
    currency # toUpperCase(debitAccountObj.currency)

\* insufficientFunds off by one: a balance one short of the amount passes.
insufficientFunds_OffByOne(balance, amountInt) == balance + 1 < amountInt

\* debitAccountObj.balance < amountInt
insufficientFunds(balance, amountInt) == balance < amountInt

\* The checks on the two accounts found in the list: both exist, their
\* currencies agree with each other and with the instruction, funds suffice.
AccountChecks(parsed, accounts) ==
    LET amountInt        == AmountOf(parseInt(parsed.amount))
        debitAccountObj  == find(accounts, parsed.debitAccount)
        creditAccountObj == find(accounts, parsed.creditAccount)
        all              == accountsWithOriginalBalances(accounts)
        parties          == transactionAccountsOriginal(accounts, parsed.debitAccount,
                                                        parsed.creditAccount)
    IN  IF debitAccountObj = 0
        THEN Response(parsed, amountInt, "failed", "AC03", all)
        ELSE IF creditAccountObj = 0
        THEN Response(parsed, amountInt, "failed", "AC03", all)
        ELSE IF accountCurrenciesDiffer(accounts[debitAccountObj], accounts[creditAccountObj])
        THEN Response(parsed, amountInt, "failed", "CU01", parties)
        ELSE IF instructionCurrencyDiffers(parsed.currency, accounts[debitAccountObj])
        THEN Response(parsed, amountInt, "failed", "CU01", parties)
        ELSE IF insufficientFunds(accounts[debitAccountObj].balance, amountInt.val)
        THEN Response(parsed, amountInt, "failed", "AC01", parties)
        ELSE NoResponse

\* executeBy absent, past or today: execute; future: pending.
shouldExecute(parsed, now) ==
    ~(~parsed.executeBy.isNull /\ compareDateWithToday(parsed.executeBy.str, now) = "future")

\* let newDebitBalance = balance; if (shouldExecute) newDebitBalance = balance - amountInt
newDebitBalance(balance, amountInt, execute) ==
    IF execute THEN balance - amountInt ELSE balance

\* newCreditBalance with the credit left out.
newCreditBalance_NoCredit(balance, amountInt, execute) == balance

\* let newCreditBalance = balance; if (shouldExecute) newCreditBalance = balance + amountInt
newCreditBalance(balance, amountInt, execute) ==
    IF execute THEN balance + amountInt ELSE balance

\* The terminal step: execute the transfer or mark it pending.
Execute(parsed, accounts, now) ==
    LET amountInt        == AmountOf(parseInt(parsed.amount))
        debitAccountObj  == accounts[find(accounts, parsed.debitAccount)]
        creditAccountObj == accounts[find(accounts, parsed.creditAccount)]
        execute          == shouldExecute(parsed, now)
        newDebit         == newDebitBalance(debitAccountObj.balance, amountInt.val, execute)
        newCredit        == newCreditBalance(creditAccountObj.balance, amountInt.val, execute)
    IN  Response(parsed, amountInt,
                 IF execute THEN "successful" ELSE "pending",
                 IF execute THEN "AP00" ELSE "AP02",
                 transactionAccountsFinal(accounts, parsed.debitAccount, parsed.creditAccount,
                                          newDebit, newCredit,
                                          debitAccountObj, creditAccountObj))

\* parsePaymentInstruction from the point where `parsed` is known.
processParsed(parsed, accounts, now) ==
    IF parsed.isNull THEN UnparseableResponse
    ELSE LET format == FormatChecks(parsed, accounts)
         IN  IF format # NoResponse THEN format
             ELSE LET account == AccountChecks(parsed, accounts)
                  IN  IF account # NoResponse THEN account
                      ELSE Execute(parsed, accounts, now)

parsePaymentInstruction(accounts, instruction, now) ==
    processParsed(parseInstruction(instruction), accounts, now)

\* ------------------------------------------------------------------------
\* The HTTP handler
\* ------------------------------------------------------------------------

HTTP_200_OK == 200

HTTP_400_BAD_REQUEST == 400

\* The status mapping with every result that did not execute taken as an error.
httpStatusOf_PendingIsError(resp) ==
    IF resp.status # "successful" THEN HTTP_400_BAD_REQUEST ELSE HTTP_200_OK

\* let httpStatus = HTTP_200_OK; if (response.status === 'failed') httpStatus = HTTP_400_BAD_REQUEST
httpStatusOf(resp) ==
    IF resp.status = "failed" THEN HTTP_400_BAD_REQUEST ELSE HTTP_200_OK

\* ------------------------------------------------------------------------
\* Requests.  A request text is written from a form: the two grammar shapes
\* with their fields, the casing of the keywords, the white space between
\* and around the tokens, and at most one defect (a token dropped, a stray
\* token inserted, or two neighbouring tokens swapped).
\* ------------------------------------------------------------------------

MaxAccounts == 3

ID_A    == <<"a">>
ID_B    == <<"b">>
ID_C    == <<"c">>
ID_BAD  == <<"a","#">>
ID_DOTS == <<"A",".","1">>
ID_TOM  == <<"t","o","m">>
ID_JON  == <<"j","o","n">>
ID_MAIL == <<"x","@","y","-","z">>

CUR_USD   == <<"U","S","D">>
CUR_GBP   == <<"G","B","P">>
CUR_EUR   == <<"E","U","R">>
CUR_LOWER == <<"u","s","d">>

AMT_3    == <<"3">>
AMT_ZERO == <<"0">>
AMT_NEG  == <<"-","5">>
AMT_FRAC == <<"5",".","5">>
AMT_WORD == <<"x","1">>
AMT_LEAD == <<"0","3">>

DATE_PAST    == <<"2","0","2","3","-","1","2","-","3","1">>
DATE_TODAY   == <<"2","0","2","4","-","0","3","-","0","1">>
DATE_FUTURE  == <<"2","0","2","4","-","0","4","-","0","1">>
DATE_INVALID == <<"2","0","2","4","-","0","2","-","3","0">>

JUNK == <<"z","z">>

\* The instants at which a request is served: one calendar date, early and late.
Nows == {[year |-> 2024, month |-> 3, day |-> 1, hour |-> h] : h \in {0, 23}}

\* Two entries share the id a; one currency is written in lower case.
AccountPool ==
    {[id |-> ID_A, balance |-> 3, currency |-> CUR_USD],
     [id |-> ID_A, balance |-> 1, currency |-> CUR_GBP],
     [id |-> ID_B, balance |-> 2, currency |-> CUR_LOWER],
     [id |-> ID_C, balance |-> 5, currency |-> CUR_USD]}

\* The lists of at most MaxAccounts entries of the pool, no entry taken twice.
AccountLists ==
    {l \in UNION {[1..n -> AccountPool] : n \in 0..MaxAccounts} :
        \A i, j \in DOMAIN l : i # j => l[i] # l[j]}

NoDefect == [kind |-> "none", at |-> 0]

Form(type, lower, sep, pad, amount, currency, debit, credit, date, defect) ==
    [type |-> type, lower |-> lower, sep |-> sep, pad |-> pad, amount |-> amount,
     currency |-> currency, debit |-> debit, credit |-> credit, date |-> date,
     defect |-> defect]

Plain(type, amount, currency, debit, credit, date) ==
    Form(type, FALSE, <<" ">>, <<>>, amount, currency, debit, credit, date, NoDefect)

Keyword(f, k) == IF f.lower THEN toLowerCase(k) ELSE k

\* The tokens of the text, in order, before any defect.
Tokens(f) ==
    LET head == IF f.type = "DEBIT"
                THEN <<Keyword(f, KW_DEBIT), f.amount, f.currency,
                       Keyword(f, KW_FROM), Keyword(f, KW_ACCOUNT), f.debit,
                       Keyword(f, KW_FOR), Keyword(f, KW_CREDIT),
                       Keyword(f, KW_TO), Keyword(f, KW_ACCOUNT), f.credit>>
                ELSE <<Keyword(f, KW_CREDIT), f.amount, f.currency,
                       Keyword(f, KW_TO), Keyword(f, KW_ACCOUNT), f.credit,
                       Keyword(f, KW_FOR), Keyword(f, KW_DEBIT),
                       Keyword(f, KW_FROM), Keyword(f, KW_ACCOUNT), f.debit>>
    IN  IF f.date.isNull THEN head
        ELSE head \o <<Keyword(f, KW_ON), f.date.str>>

Defective(f, tokens) ==
    IF f.defect.kind = "drop"
    THEN SubSeq(tokens, 1, f.defect.at - 1) \o SubSeq(tokens, f.defect.at + 1, Len(tokens))
    ELSE IF f.defect.kind = "extra"
    THEN SubSeq(tokens, 1, f.defect.at - 1) \o <<JUNK>>
             \o SubSeq(tokens, f.defect.at, Len(tokens))
    ELSE IF f.defect.kind = "swap"
    THEN SubSeq(tokens, 1, f.defect.at - 1)
             \o <<tokens[f.defect.at + 1], tokens[f.defect.at]>>
             \o SubSeq(tokens, f.defect.at + 2, Len(tokens))
    ELSE tokens

RECURSIVE Join(_, _)
Join(tokens, sep) ==
    IF tokens = <<>> THEN <<>>
    ELSE IF Len(tokens) = 1 THEN tokens[1]
    ELSE tokens[1] \o sep \o Join(Tail(tokens), sep)

\* The request text of a form.
Text(f) == f.pad \o Join(Defective(f, Tokens(f)), f.sep) \o f.pad

\* The requests of Spec: every combination that decides a validation step, and
\* the dated transfers between the two accounts of the pool.
ChainForms ==
    {Plain("DEBIT", amount, currency, debit, credit, date) :
        amount \in {AMT_3, AMT_ZERO}, currency \in {CUR_USD, CUR_EUR},
        debit \in {ID_A, ID_B, ID_BAD}, credit \in {ID_A, ID_C, ID_BAD},
        date \in {Null, Str(DATE_INVALID)}}

DatedForms ==
    {Plain(type, AMT_3, currency, debit, credit, date) :
        type \in {"DEBIT", "CREDIT"}, currency \in {CUR_USD, CUR_GBP},
        debit \in {ID_A, ID_B}, credit \in {ID_A, ID_B},
        date \in {Null, Str(DATE_PAST), Str(DATE_TODAY), Str(DATE_FUTURE)}}

Forms == ChainForms \cup DatedForms \cup {Plain("DEBIT", JUNK, JUNK, JUNK, JUNK, Null)}

\* The requests of SpecParser: well-formed texts in every casing and spacing,
\* every kind of amount token, and every single defect of the plain text.
SpacedForms ==
    {Form(type, lower, sep, pad, AMT_3, currency, debit, credit, date, NoDefect) :
        type \in {"DEBIT", "CREDIT"}, lower \in BOOLEAN,
        sep \in {<<" ">>, <<" ", " ">>, <<" ", "\t">>}, pad \in {<<>>, <<" ">>},
        currency \in {CUR_USD, CUR_LOWER},
        debit \in {ID_A, ID_DOTS, ID_TOM}, credit \in {ID_B, ID_JON, ID_MAIL},
        date \in {Null, Str(DATE_FUTURE)}}

AmountForms ==
    {Plain(type, amount, CUR_USD, ID_A, ID_B, Null) :
        type \in {"DEBIT", "CREDIT"},
        amount \in {AMT_3, AMT_ZERO, AMT_NEG, AMT_FRAC, AMT_WORD, AMT_LEAD}}

\* Token 1 is the leading keyword, 2 the amount, 3 the currency, 6 and 11 the
\* ids; the others are keywords.  A token is dropped anywhere; a stray token is
\* put, or two tokens are swapped, between adjacent keywords.
Defects ==
    {[kind |-> "drop", at |-> at] : at \in 1..11}
        \cup {[kind |-> "extra", at |-> at] : at \in {5, 8, 9, 10}}
        \cup {[kind |-> "swap", at |-> at] : at \in {4, 7, 8, 9}}

DefectForms ==
    {Form(type, FALSE, <<" ">>, <<>>, AMT_3, CUR_USD, ID_A, ID_B, date, defect) :
        type \in {"DEBIT", "CREDIT"}, date \in {Null, Str(DATE_FUTURE)},
        defect \in Defects}

\* Token 13 is the date: dropped, the text ends with the keyword ON.
DateDropped == [kind |-> "drop", at |-> 13]

OnWithoutDateForms ==
    {Form(type, FALSE, <<" ">>, pad, AMT_3, CUR_USD, ID_A, ID_B, Str(DATE_FUTURE), DateDropped) :
        type \in {"DEBIT", "CREDIT"}, pad \in {<<>>, <<" ">>}}

ParserForms == SpacedForms \cup AmountForms \cup DefectForms \cup OnWithoutDateForms

ParserAccountLists ==
    {<<>>,
     <<[id |-> ID_A, balance |-> 3, currency |-> CUR_USD],
       [id |-> ID_B, balance |-> 2, currency |-> CUR_LOWER]>>}

\* The text year-month-day.
YMD(year, month, day) == year \o <<"-">> \o month \o <<"-">> \o day

Y2024 == <<"2","0","2","4">>

\* Execute-by texts: the ends of the months and of the ranges, leap days in
\* leap, common and century years, and texts that are not of the shape at all.
DateTexts ==
    {YMD(Y2024, <<"0","2">>, <<"2","9">>),
     YMD(<<"2","0","2","3">>, <<"0","2">>, <<"2","9">>),
     YMD(<<"1","9","0","0">>, <<"0","2">>, <<"2","9">>),
     YMD(<<"2","0","0","0">>, <<"0","2">>, <<"2","9">>),
     YMD(Y2024, <<"0","2">>, <<"3","0">>),
     YMD(Y2024, <<"0","4">>, <<"3","0">>),
     YMD(Y2024, <<"0","4">>, <<"3","1">>),
     YMD(Y2024, <<"1","2">>, <<"3","1">>),
     YMD(Y2024, <<"1","3">>, <<"0","1">>),
     YMD(Y2024, <<"0","0">>, <<"1","0">>),
     YMD(Y2024, <<"0","1">>, <<"0","0">>),
     YMD(Y2024, <<"0","1">>, <<"3","2">>),
     YMD(<<"0","9","9","9">>, <<"1","2">>, <<"3","1">>),
     YMD(<<"1","0","0","0">>, <<"0","1">>, <<"0","1">>),
     YMD(<<"9","9","9","9">>, <<"1","2">>, <<"3","1">>),
     YMD(Y2024, <<"0","a">>, <<"0","1">>),
     YMD(Y2024, <<"0","3">>, <<"1","x">>),
     YMD(<<"-","0","2","4">>, <<"0","3">>, <<"0","1">>),
     YMD(Y2024, <<"3">>, <<"1">>),
     YMD(Y2024, <<"0","3">>, <<"0","1","1">>),
     Y2024 \o <<"/">> \o <<"0","3">> \o <<"/">> \o <<"0","1">>,
     Y2024 \o <<"0","3","0","1","a","b">>,
     YMD(Y2024, <<"0","3">>, <<"0","1">>) \o <<" ">> \o JUNK}

\* The requests of SpecDates: a transfer between the two accounts with each
\* execute-by text, also with an amount or an id that fails before the date.
DateForms ==
    {Plain(type, amount, CUR_USD, debit, ID_B, Str(date)) :
        type \in {"DEBIT", "CREDIT"}, amount \in {AMT_3, AMT_ZERO},
        debit \in {ID_A, ID_BAD}, date \in DateTexts}

\* The requests before the current one that SpecServer keeps on record.
MaxEarlier == 2

DATE_TOMORROW == <<"2","0","2","4","-","0","3","-","0","2">>

\* The instants of SpecServer: the two of Nows and the start of the next day.
Instants == Nows \cup {[year |-> 2024, month |-> 3, day |-> 2, hour |-> 0]}

\* Instant t is not before instant u.
NotBefore(t, u) ==
    \/ DateUTC(t.year, t.month - 1, t.day) > DateUTC(u.year, u.month - 1, u.day)
    \/ /\ DateUTC(t.year, t.month - 1, t.day) = DateUTC(u.year, u.month - 1, u.day)
       /\ t.hour >= u.hour

\* The requests of SpecServer: a transfer from a to b without a date, dated
\* today and dated tomorrow, on a list that allows it and on one that does not.
ServerForms ==
    {Plain("DEBIT", AMT_3, CUR_USD, ID_A, ID_B, date) :
        date \in {Null, Str(DATE_TODAY), Str(DATE_TOMORROW)}}

ServerAccountLists ==
    {<<[id |-> ID_A, balance |-> 3, currency |-> CUR_USD],
       [id |-> ID_B, balance |-> 2, currency |-> CUR_LOWER]>>,
     <<[id |-> ID_A, balance |-> 1, currency |-> CUR_GBP],
       [id |-> ID_B, balance |-> 2, currency |-> CUR_LOWER]>>}

\* ------------------------------------------------------------------------
\* The state machine: one request, served by the handler.
\* ------------------------------------------------------------------------

VARIABLES
    form,         \* the form the request text was written from (never read by the program)
    accounts,     \* payload.accounts
    instruction,  \* payload.instruction
    now,          \* the instant new Date() returns while the request is served
    pc,           \* "received" -> "processed" -> "responded"
    parsed,       \* the local `parsed` of parsePaymentInstruction, once it has run
    response,     \* what parsePaymentInstruction returned
    httpStatus,   \* the status of the HTTP reply, 0 before it is sent
    data,         \* the data of the HTTP reply
    earlier       \* the requests this server process has answered before, oldest first

vars == <<form, accounts, instruction, now, pc, parsed, response, httpStatus, data, earlier>>

Received ==
    /\ instruction = Text(form)
    /\ now \in Nows
    /\ pc = "received"
    /\ parsed = ParsedNull
    /\ response = NoResponse
    /\ httpStatus = 0
    /\ data = NoResponse
    /\ earlier = <<>>

Init ==
    /\ form \in Forms
    /\ accounts \in AccountLists
    /\ Received

InitParser ==
    /\ form \in ParserForms
    /\ accounts \in ParserAccountLists
    /\ Received

InitDates ==
    /\ form \in DateForms
    /\ accounts \in ParserAccountLists
    /\ Received

InitServer ==
    /\ form \in ServerForms
    /\ accounts \in ServerAccountLists
    /\ Received

\* const response = await parsePaymentInstruction(payload)
Process ==
    /\ pc = "received"
    /\ parsed' = parseInstruction(instruction)
    /\ response' = processParsed(parsed', accounts, now)
    /\ pc' = "processed"
    /\ UNCHANGED <<form, accounts, instruction, now, httpStatus, data, earlier>>

\* return {status: httpStatus, data: response}
Respond ==
    /\ pc = "processed"
    /\ httpStatus' = httpStatusOf(response)
    /\ data' = response
    /\ pc' = "responded"
    /\ UNCHANGED <<form, accounts, instruction, now, parsed, response, earlier>>

\* The server hands the next request to the handler, at the same instant or
\* later.  Nothing of the request before it is kept by the program; `earlier`
\* keeps it for the record.
Receive ==
    /\ pc = "responded"
    /\ Len(earlier) < MaxEarlier
    /\ earlier' = Append(earlier, [accounts |-> accounts, instruction |-> instruction,
                                    now |-> now, response |-> response])
    /\ form' \in ServerForms
    /\ accounts' \in ServerAccountLists
    /\ instruction' = Text(form')
    /\ now' \in {t \in Instants : NotBefore(t, now)}
    /\ pc' = "received"
    /\ parsed' = ParsedNull
    /\ response' = NoResponse
    /\ httpStatus' = 0
    /\ data' = NoResponse

Next == Process \/ Respond

\* The server process over successive requests.
NextServer == Process \/ Respond \/ Receive

Spec == Init /\ [][Next]_vars

SpecParser == InitParser /\ [][Next]_vars

SpecDates == InitDates /\ [][Next]_vars

SpecServer == InitServer /\ [][NextServer]_vars

\* ------------------------------------------------------------------------
\* Properties
\* ------------------------------------------------------------------------

\* The handler has its response.
Processed == pc # "received"

\* The input entries, in order, that carry a given id.
EntriesWithId(id) ==
    LET Has(acc) == acc.id = id
    IN  SelectSeq(accounts, Has)

\* The eleven checks, in their stated order, on a parsed instruction p: TRUE
\* where the check passes.  A check on an account that is not in the list
\* counts as passed: the existence check before it is the one that fails.
Checks(p) ==
    LET debits  == EntriesWithId(p.debitAccount)
        credits == EntriesWithId(p.creditAccount)
        both    == debits # <<>> /\ credits # <<>>
    IN  << isPositiveInteger(p.amount),
           isValidAccountId(p.debitAccount),
           isValidAccountId(p.creditAccount),
           p.executeBy.isNull \/ isValidDate(p.executeBy.str),
           p.currency \in SUPPORTED_CURRENCIES,
           p.debitAccount # p.creditAccount,
           debits # <<>>,
           credits # <<>>,
           both => toUpperCase(debits[1].currency) = toUpperCase(credits[1].currency),
           debits # <<>> => p.currency = toUpperCase(debits[1].currency),
           (debits # <<>> /\ isPositiveInteger(p.amount))
               => debits[1].balance >= parseInt(p.amount).val >>

CheckCodes ==
    <<"AM01", "AC04", "AC04", "DT01", "CU02", "AC02", "AC03", "AC03", "CU01", "CU01", "AC01">>

\* The positions of the checks that fail for p.
Failing(p) ==
    LET checks == Checks(p)
    IN  {i \in DOMAIN CheckCodes : ~checks[i]}

Least(S) == CHOOSE i \in S : \A j \in S : i <= j

\* C1: for every instruction that parses, the status code is the code of the
\* first failing check in the order amount, debit id, credit id, date,
\* currency supported, debit # credit, debit exists, credit exists, account
\* currencies equal, instruction currency equal, funds; and the result is AP00
\* or AP02 exactly when all eleven checks pass.  (Currencies are compared as
\* the program compares them, upper-cased.)
C1_FirstFailingCheck ==
    (Processed /\ ~parsed.isNull) =>
        LET failing == Failing(parsed)
        IN  /\ failing # {} => response.status_code = CheckCodes[Least(failing)]
            /\ response.status_code \in {"AP00", "AP02"} <=> failing = {}

\* A response DT01 to a request whose currency and account pair are wrong too.
C1_Witness ==
    /\ Processed
    /\ ~parsed.isNull
    /\ response.status_code = "DT01"
    /\ {4, 5, 6} \subseteq Failing(parsed)
    /\ Least(Failing(parsed)) = 4

\* The snapshots of a response that carry a given id.
SnapshotsWithId(id) == {k \in DOMAIN response.accounts : response.accounts[k].id = id}

DateFields(dateStr) ==
    <<parseInt(SubSeq(dateStr, 1, 4)).val,
      parseInt(SubSeq(dateStr, 6, 7)).val,
      parseInt(SubSeq(dateStr, 9, 10)).val>>

\* The date is strictly after the instant's UTC calendar date.
AfterToday(dateStr, instant) ==
    LET d == DateFields(dateStr)
    IN  \/ d[1] > instant.year
        \/ d[1] = instant.year /\ d[2] > instant.month
        \/ d[1] = instant.year /\ d[2] = instant.month /\ d[3] > instant.day

\* C3: an instruction that passes all eleven checks is executed (successful,
\* AP00, debit balance = old - amount, credit balance = old + amount) when it
\* has no execute-by date or a date on or before the current UTC calendar
\* date, and is pending (AP02) when the date is strictly later.
C3_ExecuteOrPending ==
    (Processed /\ ~parsed.isNull) =>
        (Failing(parsed) = {} =>
            LET amount    == parseInt(parsed.amount).val
                oldDebit  == EntriesWithId(parsed.debitAccount)[1].balance
                oldCredit == EntriesWithId(parsed.creditAccount)[1].balance
                debits    == SnapshotsWithId(parsed.debitAccount)
                credits   == SnapshotsWithId(parsed.creditAccount)
            IN  IF parsed.executeBy.isNull \/ ~AfterToday(parsed.executeBy.str, now)
                THEN /\ response.status = "successful"
                     /\ response.status_code = "AP00"
                     /\ debits # {} /\ credits # {}
                     /\ \A k \in debits : response.accounts[k].balance = oldDebit - amount
                     /\ \A k \in credits : response.accounts[k].balance = oldCredit + amount
                ELSE /\ response.status = "pending"
                     /\ response.status_code = "AP02")

\* A transfer dated today, served late in the day, and executed.
C3_Witness ==
    /\ Processed
    /\ ~parsed.isNull
    /\ parsed.executeBy = Str(DATE_TODAY)
    /\ now.hour = 23
    /\ Failing(parsed) = {}
    /\ response.status_code = "AP00"

\* The strictly increasing maps from the snapshots of the response to the
\* positions of the input list.
Embeddings ==
    {e \in [DOMAIN response.accounts -> DOMAIN accounts] :
        \A i, j \in DOMAIN e : i < j => e[i] < e[j]}

\* C4: in every result that is not successful, every snapshot has
\* balance = balance_before, and that value is the balance of the input
\* account the snapshot stands for (the snapshots follow the input order).
C4_UnexecutedSnapshotsEchoInput ==
    (Processed /\ response.status # "successful") =>
        \E e \in Embeddings :
            \A k \in DOMAIN response.accounts :
                /\ response.accounts[k].id = accounts[e[k]].id
                /\ response.accounts[k].balance = response.accounts[k].balance_before
                /\ response.accounts[k].balance = accounts[e[k]].balance

IdsOf(list) == [k \in DOMAIN list |-> list[k].id]

\* The ids of the two parties among the input accounts, in input order.
PartyIds ==
    LET IsParty(id) == id = parsed.debitAccount \/ id = parsed.creditAccount
    IN  SelectSeq(IdsOf(accounts), IsParty)

\* C5 as stated: a failure at checks 1-6 (AM01, AC04, DT01, CU02, AC02) echoes
\* every input account in input order; from check 7 on (AC03, CU01, AC01, AP00,
\* AP02) only the debit and credit accounts are echoed, in input order.
C5_Original ==
    (Processed /\ ~parsed.isNull) =>
        /\ response.status_code \in {"AM01", "AC04", "DT01", "CU02", "AC02"}
              => IdsOf(response.accounts) = IdsOf(accounts)
        /\ response.status_code \in {"AC03", "CU01", "AC01", "AP00", "AP02"}
              => IdsOf(response.accounts) = PartyIds

\* C5, amended: a failure at checks 1-8 (AM01, AC04, DT01, CU02, AC02 and
\* AC03) echoes every input account in input order; from check 9 on (CU01,
\* AC01, AP00, AP02) only the debit and credit accounts are echoed, in input
\* order.
C5_SnapshotPolicy ==
    (Processed /\ ~parsed.isNull) =>
        /\ response.status_code \in {"AM01", "AC04", "DT01", "CU02", "AC02", "AC03"}
              => IdsOf(response.accounts) = IdsOf(accounts)
        /\ response.status_code \in {"CU01", "AC01", "AP00", "AP02"}
              => IdsOf(response.accounts) = PartyIds

\* An AC03 response that echoes an account which is neither party, and a
\* request for which the two policies differ.
C5_Witness ==
    /\ Processed
    /\ ~parsed.isNull
    /\ response.status_code = "AC03"
    /\ PartyIds # IdsOf(accounts)
    /\ IdsOf(response.accounts) = IdsOf(accounts)

\* C6: whenever the parser returns null the result is failed / SY03 with every
\* descriptive field null and no accounts; no result carries SY01 or SY02.
C6_UnparseableIsSY03 ==
    Processed =>
        /\ parsed.isNull =>
              /\ response.status = "failed"
              /\ response.status_code = "SY03"
              /\ response.type = Null
              /\ response.amount.isNull
              /\ response.currency = Null
              /\ response.debit_account = Null
              /\ response.credit_account = Null
              /\ response.execute_by = Null
              /\ response.accounts = <<>>
        /\ response.status_code \notin {"SY01", "SY02"}

\* A text with a token dropped that the parser gives up on, sent with accounts.
C6_Witness ==
    /\ Processed
    /\ parsed.isNull
    /\ form.defect.kind = "drop"
    /\ accounts # <<>>
    /\ response.status_code = "SY03"

\* What a well-formed text stands for.
Expected(f) ==
    Parsed(IF f.type = "DEBIT" THEN KW_DEBIT ELSE KW_CREDIT, f.amount,
           toUpperCase(f.currency), f.debit, f.credit,
           IF f.date.isNull THEN <<>> ELSE f.date.str)

\* C7: for every well-formed text of either shape, in any keyword casing, with
\* any white space between the tokens and any ids of allowed characters, the
\* parser returns exactly the type, the amount, the upper-cased currency, the
\* two ids and the date (or null without an ON clause).
C7_Original ==
    (Processed /\ form.defect = NoDefect) => parsed = Expected(form)

\* C8: every text that does not conform to either shape (a keyword or a field
\* missing, a stray token between the tokens) makes the parser return null,
\* and the result is SY03.
C8_Original ==
    (Processed /\ form.defect # NoDefect) =>
        /\ parsed.isNull
        /\ response.status_code = "SY03"

\* C9 as stated: amount is null or a positive integer, and null only in the
\* SY03 result; AM01 results included.
C9_Original ==
    Processed =>
        /\ response.amount.isNull \/ (~response.amount.nan /\ response.amount.val > 0)
        /\ response.amount.isNull => response.status_code = "SY03"

\* C9, amended: amount is null exactly in the SY03 result and a positive
\* integer in every result other than SY03 and AM01; in an AM01 result it is
\* parseInt of the rejected amount token, which may be zero, negative or NaN.
C9_Amount ==
    Processed =>
        /\ response.amount.isNull <=> response.status_code = "SY03"
        /\ response.status_code \notin {"SY03", "AM01"}
              => ~response.amount.nan /\ response.amount.val > 0
        /\ response.status_code = "AM01"
              => response.amount = AmountOf(parseInt(parsed.amount))

\* An AM01 result whose amount is not a positive integer.
C9_Witness ==
    /\ Processed
    /\ response.status_code = "AM01"
    /\ ~response.amount.isNull
    /\ response.amount.nan \/ response.amount.val <= 0

\* C10: in every AP00 or AP02 result the debit and credit ids differ, both
\* name an account of the input list, the instruction currency and the
\* currencies of the two accounts are equal, and the debit account's
\* balance_before is at least the amount, so the debit balance is never
\* negative.  (The account an id names is the first input entry with that id.)
C10_ExecutionPreconditions ==
    (Processed /\ response.status_code \in {"AP00", "AP02"}) =>
        LET d       == response.debit_account.str
            c       == response.credit_account.str
            debits  == EntriesWithId(d)
            credits == EntriesWithId(c)
        IN  /\ d # c
            /\ debits # <<>>
            /\ credits # <<>>
            /\ toUpperCase(debits[1].currency) = response.currency.str
            /\ toUpperCase(credits[1].currency) = response.currency.str
            /\ debits[1].balance >= response.amount.val
            /\ \A k \in SnapshotsWithId(d) :
                  /\ response.accounts[k].balance_before >= response.amount.val
                  /\ response.accounts[k].balance >= 0

\* An executed transfer that empties the debit account, between accounts
\* whose currencies are written in different cases.
C10_Witness ==
    /\ Processed
    /\ response.status_code = "AP00"
    /\ \E k \in SnapshotsWithId(response.debit_account.str) :
          response.accounts[k].balance = 0
    /\ EntriesWithId(response.credit_account.str)[1].currency = CUR_LOWER

\* The number a text of digits writes.
RECURSIVE Decimal(_)
Decimal(digits) ==
    IF digits = <<>> THEN 0
    ELSE 10 * Decimal(SubSeq(digits, 1, Len(digits) - 1))
             + (CHOOSE d \in 0..9 : DigitChars[d + 1] = digits[Len(digits)])

\* The last day of a month of the Gregorian calendar.
LastDayOf(year, month) ==
    CASE month \in {1, 3, 5, 7, 8, 10, 12} -> 31
      [] month \in {4, 6, 9, 11} -> 30
      [] OTHER -> IF year % 400 = 0 \/ (year % 4 = 0 /\ year % 100 # 0) THEN 29 ELSE 28

\* A 10-character YYYY-MM-DD text with digit-only segments, year >= 1000,
\* month in 1..12 and a day that exists in that month of that year.
IsCalendarDate(text) ==
    /\ Len(text) = 10
    /\ \A i \in 1..10 : IF i \in {5, 8} THEN text[i] = "-" ELSE text[i] \in DigitSet
    /\ LET year  == Decimal(SubSeq(text, 1, 4))
           month == Decimal(SubSeq(text, 6, 7))
           day   == Decimal(SubSeq(text, 9, 10))
       IN  /\ year >= 1000
           /\ month \in 1..12
           /\ day \in 1..LastDayOf(year, month)

\* C11: for a parsed instruction that passes checks 1-3 and has a non-empty
\* executeBy, the result is DT01 exactly when executeBy is not a 10-character
\* YYYY-MM-DD text with digit-only segments, year >= 1000, month in 1..12 and
\* a day that exists in that month of that year, leap years included.
C11_DateFormat ==
    (Processed /\ ~parsed.isNull /\ ~parsed.executeBy.isNull) =>
        LET checks == Checks(parsed)
        IN  (checks[1] /\ checks[2] /\ checks[3]) =>
                (response.status_code = "DT01" <=> ~IsCalendarDate(parsed.executeBy.str))

\* The 29th of February of 1900, a century year that is not a leap year,
\* rejected.
C11_Witness ==
    /\ Processed
    /\ ~parsed.isNull
    /\ parsed.executeBy = Str(YMD(<<"1","9","0","0">>, <<"0","2">>, <<"2","9">>))
    /\ response.status_code = "DT01"

\* C12: the handler replies with the error status 400 exactly when the core
\* result has status failed and with the success status 200 for every other
\* status (successful and pending), and the core result is the data of the
\* reply, unchanged.
C12_HttpStatus ==
    pc = "responded" =>
        /\ httpStatus = 400 <=> response.status = "failed"
        /\ httpStatus = 200 <=> response.status \in {"successful", "pending"}
        /\ data = response

\* A pending transfer answered with 200 and the result as data.
C12_Witness ==
    /\ pc = "responded"
    /\ response.status = "pending"
    /\ response.status_code = "AP02"
    /\ httpStatus = 200
    /\ data = response

\* Two instants of the same UTC calendar date.
SameDate(t, u) == t.year = u.year /\ t.month = u.month /\ t.day = u.day

\* The earlier requests with the accounts, the instruction and the UTC
\* calendar date of the current one.
SameAsNow ==
    {k \in DOMAIN earlier :
        /\ earlier[k].accounts = accounts
        /\ earlier[k].instruction = instruction
        /\ SameDate(earlier[k].now, now)}

\* C13: two invocations with identical accounts and instruction on the same
\* UTC calendar date give identical results, whatever the time of day and
\* whatever was processed before; and an invocation leaves the input accounts
\* list (ids, balances, currencies, order) as it found it.
C13_Pure ==
    /\ [](Processed => \A k \in SameAsNow : earlier[k].response = response)
    /\ [][Process => accounts' = accounts]_vars

\* A transfer dated tomorrow asked early in the day, another request after
\* it, and the first asked again late the same day: pending both times.
C13_Witness ==
    /\ Processed
    /\ Len(earlier) = 2
    /\ 1 \in SameAsNow
    /\ earlier[1].now.hour # now.hour
    /\ earlier[2].instruction # instruction
    /\ earlier[2].accounts # accounts
    /\ response.status_code = "AP02"
    /\ response = earlier[1].response

\* C14: for every input list, lists in which an id occurs more than once
\* included, every AP00 or AP02 result has exactly two snapshots, one with
\* the debit id and one with the credit id, and the balance_before of each is
\* the balance of the input entry it was built from.
C14_TwoSnapshots ==
    (Processed /\ response.status_code \in {"AP00", "AP02"}) =>
        /\ Len(response.accounts) = 2
        /\ \E i, j \in DOMAIN response.accounts :
              /\ i # j
              /\ response.accounts[i].id = response.debit_account.str
              /\ response.accounts[j].id = response.credit_account.str
        /\ \E e \in Embeddings :
              \A k \in DOMAIN response.accounts :
                  /\ response.accounts[k].id = accounts[e[k]].id
                  /\ response.accounts[k].balance_before = accounts[e[k]].balance

\* C15: an otherwise valid instruction that has the keyword ON after the last
\* account id and no date text after it is never executed: the result is
\* not AP00, it is the rejection DT01.
C15_OnWithoutDate ==
    (Processed /\ form.defect = DateDropped /\ Failing(Expected(form)) = {}) =>
        /\ response.status_code # "AP00"
        /\ response.status_code = "DT01"

\* The same transfer written in the other format.
Twin(f) == [f EXCEPT !.type = IF f.type = "DEBIT" THEN "CREDIT" ELSE "DEBIT"]

\* Two results equal in every field except type.
SameButType(r1, r2) == [r1 EXCEPT !.type = Null] = [r2 EXCEPT !.type = Null]

\* C16: for every accounts list, amount, currency, debit id, credit id and
\* optional date, the DEBIT text and the CREDIT text of the same transfer,
\* processed on the same date, give results equal in every field (amount,
\* currency, debit_account, credit_account, execute_by, status, status_code,
\* accounts) except type.
C16_FormEquivalence ==
    (Processed /\ form.defect = NoDefect) =>
        SameButType(response, parsePaymentInstruction(accounts, Text(Twin(form)), now))

====
